---- MODULE Spec2Model ----
(***************************************************************************)
(* Loan-eligibility: the Trainer (train_model.py) and the Predictor        *)
(* (app.py, a Streamlit script that is re-executed top to bottom on every  *)
(* user interaction).  The Trainer writes two artifacts, loan_model and    *)
(* label_encoders; the Predictor reads them on every run.                  *)
(*                                                                         *)
(* Library calls are modelled by what the library does:                    *)
(*   SimpleImputer(most_frequent)  per column, the most frequent observed  *)
(*       value, the smallest on a tie; a column with no observed value is  *)
(*       dropped from the result, so the assignment back into df fails;    *)
(*   LabelEncoder                  classes_ = the sorted distinct values,  *)
(*       transform = the 0-based position, ValueError on an unseen label;  *)
(*   train_test_split(test_size=0.2)  n_test = ceil(0.2 n), error when the *)
(*       training part is empty;                                           *)
(*   RandomForestClassifier        predict_proba = the mean of the trees'  *)
(*       leaf distributions, predict = classes_[argmax], the first index   *)
(*       on a tie.                                                         *)
(***************************************************************************)
EXTENDS Integers, Sequences, FiniteSets, TLC

VARIABLES
    disk,            \* the two persisted artifacts (or None where a file is absent)
    tpc,             \* Trainer: position in train_model.py
    df,              \* Trainer: the data frame [columns, rows]
    t_encoders,      \* Trainer: label_encoders, column -> classes_
    X,               \* Trainer: feature frame [columns, rows]
    y,               \* Trainer: encoded target, one code per row
    train_idx,       \* Trainer: row indices of the training partition
    t_model,         \* Trainer: the fitted classifier
    ppc,             \* Predictor: position in the current run of app.py
    widgets,         \* Predictor: the sidebar widget values (kept by Streamlit across runs)
    button,          \* Predictor: TRUE in the run triggered by the Predict button
    model,           \* Predictor: loaded classifier
    label_encoders,  \* Predictor: loaded encoder set
    input_df,        \* Predictor: the single-row frame [columns, values]
    result,          \* Predictor: [prediction, proba] once computed in this run
    shown,           \* Predictor: the messages written to the page in this run
    calls,           \* Predictor: the library calls made in this run
    uncaught         \* Predictor: the exception that left the script, or "none"

tvars == <<tpc, df, t_encoders, X, y, train_idx, t_model>>
pvars == <<ppc, widgets, button, model, label_encoders, input_df, result, shown, calls, uncaught>>
vars == <<disk, tpc, df, t_encoders, X, y, train_idx, t_model,
          ppc, widgets, button, model, label_encoders, input_df, result, shown, calls, uncaught>>

(***************************************************************************)
(* Bounds of the model.                                                    *)
(***************************************************************************)
MaxRows == 4     \* records in the training dataset
NTrees == 2      \* trees in the forest (n_estimators)
MaxEdits == 2    \* widgets that differ from their defaults in a session

(***************************************************************************)
(* Values.                                                                 *)
(***************************************************************************)
None == [absent |-> TRUE]      \* an undefined name / a missing file
NaN == "NaN"                   \* a missing cell

Range(s) == {s[i] : i \in DOMAIN s}

\* The order np.unique / min() give the values of one column: strings by code
\* point, numbers by value.  Only values of the same column are ever compared.
SortOrder ==
    <<"0", "1", "2", "3", "3+", "100", "120", "360", "2000", "5000",
      "Female", "Graduate", "LP001", "Male", "N", "No", "Not Graduate",
      "Rural", "Semiurban", "Urban", "Y", "Yes">>

Rank(v) == CHOOSE i \in 1..Len(SortOrder) : SortOrder[i] = v

\* sorted(S) for a set of values of one column
RECURSIVE Sorted(_)
Sorted(S) ==
    IF S = {} THEN <<>>
    ELSE LET m == CHOOSE a \in S : \A b \in S : Rank(a) <= Rank(b)
         IN  <<m>> \o Sorted(S \ {m})

\* position of v in sequence s (1-based); v must occur
IndexOf(s, v) == CHOOSE i \in 1..Len(s) : s[i] = v

(***************************************************************************)
(* The dataset file.                                                       *)
(***************************************************************************)
Header ==
    <<"Loan_ID", "Gender", "Married", "Dependents", "Education", "Self_Employed",
      "ApplicantIncome", "CoapplicantIncome", "LoanAmount", "Loan_Amount_Term",
      "Credit_History", "Property_Area", "Loan_Status">>

BaseRecord ==
    [Loan_ID |-> "LP001", Gender |-> "Male", Married |-> "No", Dependents |-> "0",
     Education |-> "Graduate", Self_Employed |-> "No", ApplicantIncome |-> "5000",
     CoapplicantIncome |-> "2000", LoanAmount |-> "100", Loan_Amount_Term |-> "360",
     Credit_History |-> "1", Property_Area |-> "Urban", Loan_Status |-> "Y"]

\* The records a dataset is drawn from: both values and a missing cell in a
\* categorical column, a numeric column and the target column.
Records ==
    { BaseRecord,
      [BaseRecord EXCEPT !.Gender = "Female", !.Loan_Status = "N", !.Property_Area = "Rural"],
      [BaseRecord EXCEPT !.Gender = NaN],
      [BaseRecord EXCEPT !.LoanAmount = NaN, !.Loan_Status = "N"],
      [BaseRecord EXCEPT !.Gender = "Female", !.LoanAmount = "120", !.Loan_Status = NaN],
      [BaseRecord EXCEPT !.Dependents = "3+", !.LoanAmount = "120"] }

Datasets == UNION { [1..n -> Records] : n \in 1..MaxRows }

NoFrame == [columns |-> <<>>, rows |-> <<>>]

(***************************************************************************)
(* Trainer: pure steps.                                                    *)
(***************************************************************************)
\* df.drop(columns=[name]): the other columns, in their order
DropColumn(frame, name) ==
    LET cols == SelectSeq(frame.columns, LAMBDA c : c # name)
    IN  [columns |-> cols,
         rows |-> [i \in DOMAIN frame.rows |-> [c \in Range(cols) |-> frame.rows[i][c]]]]

Column(frame, c) == [i \in DOMAIN frame.rows |-> frame.rows[i][c]]

Observed(col) == {col[i] : i \in DOMAIN col} \ {NaN}

Count(col, v) == Cardinality({i \in DOMAIN col : col[i] = v})

\* the fill value were the imputer to take the smallest observed value,
\* whatever its frequency
SmallestObserved(col) ==
    IF Observed(col) = {} THEN NaN
    ELSE CHOOSE v \in Observed(col) : \A w \in Observed(col) : Rank(v) <= Rank(w)

\* SimpleImputer(strategy='most_frequent').statistics_ for one column
MostFrequent(col) ==
    IF Observed(col) = {} THEN NaN
    ELSE LET top == {v \in Observed(col) : \A w \in Observed(col) : Count(col, v) >= Count(col, w)}
         IN  CHOOSE v \in top : \A w \in top : Rank(v) <= Rank(w)

\* the columns fit_transform keeps: those with a statistic
ValidColumns(frame) ==
    SelectSeq(frame.columns, LAMBDA c : MostFrequent(Column(frame, c)) # NaN)

Imputed(frame) ==
    [columns |-> frame.columns,
     rows |-> [i \in DOMAIN frame.rows |->
                 [c \in Range(frame.columns) |->
                     IF frame.rows[i][c] = NaN THEN MostFrequent(Column(frame, c))
                     ELSE frame.rows[i][c]]]]

\* df.replace({'3+': 3})
Replaced(frame) ==
    [columns |-> frame.columns,
     rows |-> [i \in DOMAIN frame.rows |->
                 [c \in Range(frame.columns) |->
                     IF frame.rows[i][c] = "3+" THEN "3" ELSE frame.rows[i][c]]]]

EncodedColumns == <<"Gender", "Married", "Education", "Self_Employed", "Property_Area", "Loan_Status">>

\* LabelEncoder().fit(values).classes_
FitClasses(col) == Sorted({col[i] : i \in DOMAIN col})

\* LabelEncoder.transform of one label: its 0-based position, or an error
Transform(classes, v) ==
    IF v \in Range(classes) THEN [ok |-> TRUE, code |-> IndexOf(classes, v) - 1]
    ELSE [ok |-> FALSE, code |-> 0]

FittedEncoders(frame) ==
    [c \in Range(EncodedColumns) |-> FitClasses(Column(frame, c))]

EncodedFrame(frame) ==
    [columns |-> frame.columns,
     rows |-> [i \in DOMAIN frame.rows |->
                 [c \in Range(frame.columns) |->
                     IF c \in Range(EncodedColumns)
                     THEN Transform(FitClasses(Column(frame, c)), frame.rows[i][c]).code
                     ELSE frame.rows[i][c]]]]

\* train_test_split: n_test = ceil(0.2 * n)
NTest(n) == (n + 4) \div 5

(***************************************************************************)
(* The classifier.  A tree is a stump: x[feat] <= thr goes left.  A leaf   *)
(* is the pair of class weights <<w0, w1>>, in halves (w0 + w1 = 2).       *)
(***************************************************************************)
CreditStump == [feat |-> 10, thr |-> 0, left |-> <<2, 0>>, right |-> <<0, 2>>]

GenderStump == [feat |-> 1, thr |-> 0, left |-> <<1, 1>>, right |-> <<2, 0>>]

TreeSet == {CreditStump, GenderStump}

Forests == [1..NTrees -> TreeSet]

\* what fit() can return for the classes seen in y_train
FittedModels(classes, names) ==
    IF Len(classes) = 1
    THEN { [classes |-> classes, feature_names_in |-> names, trees |-> <<>>] }
    ELSE { [classes |-> classes, feature_names_in |-> names, trees |-> f] : f \in Forests }


RECURSIVE SortedInts(_)
SortedInts(S) ==
    IF S = {} THEN <<>>
    ELSE LET m == CHOOSE a \in S : \A b \in S : a <= b
         IN  <<m>> \o SortedInts(S \ {m})

RECURSIVE Weight(_, _, _)
\* the sum over the trees of the weight their leaf for x gives class index k
Weight(trees, x, k) ==
    IF trees = <<>> THEN 0
    ELSE LET t == Head(trees)
             leaf == IF x[t.feat] <= t.thr THEN t.left ELSE t.right
         IN  leaf[k] + Weight(Tail(trees), x, k)

\* model.predict_proba(x)[0]: one fraction per class of classes_
PredictProba(m, x) ==
    IF Len(m.classes) = 1 THEN << [num |-> 1, den |-> 1] >>
    ELSE LET w0 == Weight(m.trees, x, 1)
             w1 == Weight(m.trees, x, 2)
         IN  << [num |-> w0, den |-> w0 + w1], [num |-> w1, den |-> w0 + w1] >>

\* predict were argmax to take the last index on a tie
PredictTieLast(m, x) ==
    IF Len(m.classes) = 1 THEN m.classes[1]
    ELSE IF Weight(m.trees, x, 2) >= Weight(m.trees, x, 1) THEN m.classes[2] ELSE m.classes[1]

\* model.predict(x)[0] = classes_[argmax(predict_proba)], the first index on a tie
Predict(m, x) ==
    IF Len(m.classes) = 1 THEN m.classes[1]
    ELSE IF Weight(m.trees, x, 2) > Weight(m.trees, x, 1) THEN m.classes[2] ELSE m.classes[1]

(***************************************************************************)
(* Trainer: the steps of train_model.py.                                   *)
(***************************************************************************)
TrainerIdle ==
    /\ df = NoFrame /\ t_encoders = None /\ X = NoFrame
    /\ y = <<>> /\ train_idx = {} /\ t_model = None

\* line 11
DropId ==
    /\ tpc = "read"
    /\ df' = DropColumn(df, "Loan_ID")
    /\ tpc' = "dropped"
    /\ UNCHANGED <<disk, t_encoders, X, y, train_idx, t_model, pvars>>

\* lines 14-15: the assignment needs an array of df's shape
Impute ==
    /\ tpc = "dropped"
    /\ IF Len(ValidColumns(df)) = Len(df.columns)
       THEN df' = Imputed(df) /\ tpc' = "imputed"
       ELSE df' = df /\ tpc' = "failed"
    /\ UNCHANGED <<disk, t_encoders, X, y, train_idx, t_model, pvars>>

\* line 18
Replace ==
    /\ tpc = "imputed"
    /\ df' = Replaced(df)
    /\ tpc' = "replaced"
    /\ UNCHANGED <<disk, t_encoders, X, y, train_idx, t_model, pvars>>

\* lines 21-25
Encode ==
    /\ tpc = "replaced"
    /\ t_encoders' = FittedEncoders(df)
    /\ df' = EncodedFrame(df)
    /\ tpc' = "encoded"
    /\ UNCHANGED <<disk, X, y, train_idx, t_model, pvars>>

\* lines 28-32.  The shuffle is fixed by random_state=42; which rows it puts
\* in the training partition is enumerated here.
Split ==
    /\ tpc = "encoded"
    /\ X' = DropColumn(df, "Loan_Status")
    /\ y' = Column(df, "Loan_Status")
    /\ LET n == Len(df.rows)
       IN  IF n - NTest(n) = 0
           THEN train_idx' = {} /\ tpc' = "failed"
           ELSE /\ \E S \in SUBSET (1..n) :
                      /\ Cardinality(S) = n - NTest(n)
                      /\ train_idx' = S
                /\ tpc' = "split"
    /\ UNCHANGED <<disk, df, t_encoders, t_model, pvars>>

\* lines 33-34
Fit ==
    /\ tpc = "split"
    /\ \E m \in FittedModels(SortedInts({y[i] : i \in train_idx}), X.columns) :
          t_model' = m
    /\ tpc' = "fitted"
    /\ UNCHANGED <<disk, df, t_encoders, X, y, train_idx, pvars>>

\* lines 37-38
Dump ==
    /\ tpc = "fitted"
    /\ disk' = [loan_model |-> t_model, label_encoders |-> t_encoders]
    /\ tpc' = "saved"
    /\ UNCHANGED <<df, t_encoders, X, y, train_idx, t_model, pvars>>

\* the process ends, normally or on the exception; only the files remain
TrainerExit ==
    /\ tpc \in {"saved", "failed"}
    /\ tpc' = "exited"
    /\ df' = NoFrame /\ t_encoders' = None /\ X' = NoFrame
    /\ y' = <<>> /\ train_idx' = {} /\ t_model' = None
    /\ UNCHANGED <<disk, pvars>>


(***************************************************************************)
(* Predictor: the sidebar form.                                            *)
(***************************************************************************)
feature_order ==
    <<"Gender", "Married", "Dependents", "Education", "Self_Employed",
      "ApplicantIncome", "CoapplicantIncome", "LoanAmount",
      "Loan_Amount_Term", "Credit_History", "Property_Area">>

\* the selectbox options and, for the number inputs, the values tried
Options ==
    [Gender |-> {"Male", "Female"},
     Married |-> {"No", "Yes"},
     Dependents |-> {"0", "1", "2", "3+"},
     Education |-> {"Graduate", "Not Graduate"},
     Self_Employed |-> {"No", "Yes"},
     ApplicantIncome |-> {5000, 8000, 8001},
     CoapplicantIncome |-> {2000},
     LoanAmount |-> {100, 300, 301},
     Loan_Amount_Term |-> {360, 180, 120, 60},
     Credit_History |-> {1, 0},
     Property_Area |-> {"Urban", "Semiurban", "Rural"}]

\* the first option of each selectbox, value= of each number input
Defaults ==
    [Gender |-> "Male", Married |-> "No", Dependents |-> "0", Education |-> "Graduate",
     Self_Employed |-> "No", ApplicantIncome |-> 5000, CoapplicantIncome |-> 2000,
     LoanAmount |-> 100, Loan_Amount_Term |-> 360, Credit_History |-> 1,
     Property_Area |-> "Urban"]

Edited(w) == {f \in DOMAIN Defaults : w[f] # Defaults[f]}

CategoricalInputs == <<"Gender", "Married", "Education", "Self_Employed", "Property_Area">>

(***************************************************************************)
(* Predictor: user_input_features.                                         *)
(***************************************************************************)
\* line 42 were an unknown label given the default code 0 as well
TransformOrZero(le, col, value) ==
    IF col \in DOMAIN le /\ value \in Range(le[col])
    THEN Transform(le[col], value)
    ELSE [ok |-> TRUE, code |-> 0]

\* line 42 without the membership test: label_encoders[col] is a KeyError
TransformOrKeyError(le, col, value) ==
    IF col \in DOMAIN le THEN Transform(le[col], value) ELSE [ok |-> FALSE, code |-> 0]

\* line 42
EncodeField(le, col, value) ==
    IF col \in DOMAIN le THEN Transform(le[col], value) ELSE [ok |-> TRUE, code |-> 0]

\* int(s) for the Dependents options
IntOf(s) == CASE s = "0" -> 0 [] s = "1" -> 1 [] s = "2" -> 2

\* line 45
NormalizeDependents(d) == IF d = "3+" THEN 3 ELSE IntOf(d)

\* lines 39-54: the dict, as its items in insertion order
DataItems(le, w) ==
    [i \in 1..Len(CategoricalInputs) |->
        <<CategoricalInputs[i], EncodeField(le, CategoricalInputs[i], w[CategoricalInputs[i]]).code>>]
    \o << <<"Dependents", NormalizeDependents(w.Dependents)>>,
          <<"ApplicantIncome", w.ApplicantIncome>>,
          <<"CoapplicantIncome", w.CoapplicantIncome>>,
          <<"LoanAmount", w.LoanAmount>>,
          <<"Loan_Amount_Term", w.Loan_Amount_Term>>,
          <<"Credit_History", w.Credit_History>> >>

EncodeFails(le, w) ==
    \E i \in 1..Len(CategoricalInputs) :
        ~EncodeField(le, CategoricalInputs[i], w[CategoricalInputs[i]]).ok

Lookup(items, key) == items[CHOOSE i \in 1..Len(items) : items[i][1] = key][2]

\* line 56 without columns=: pd.DataFrame([data]) keeps the dict's insertion order
DataFrameInDictOrder(items, columns) ==
    [columns |-> [i \in 1..Len(items) |-> items[i][1]],
     values |-> [i \in 1..Len(items) |-> items[i][2]]]

\* line 56: pd.DataFrame([data], columns=columns)
DataFrame(items, columns) ==
    [columns |-> columns,
     values |-> [k \in 1..Len(columns) |-> Lookup(items, columns[k])]]

(***************************************************************************)
(* Predictor: the advisory conditions, lines 86-95.                        *)
(***************************************************************************)
Cell(frame, c) == frame.values[IndexOf(frame.columns, c)]

GoodCredit(frame) == Cell(frame, "Credit_History") = 1

\* line 91 with >= in place of >
HighIncomeInclusive(frame) == Cell(frame, "ApplicantIncome") >= 8000

HighIncome(frame) == Cell(frame, "ApplicantIncome") > 8000

LargeLoan(frame) == Cell(frame, "LoanAmount") > 300

Insights(frame) ==
    (IF GoodCredit(frame) THEN <<"good_credit">> ELSE <<"poor_credit">>)
    \o (IF HighIncome(frame) THEN <<"high_income">> ELSE <<>>)
    \o (IF LargeLoan(frame) THEN <<"large_loan">> ELSE <<>>)

(***************************************************************************)
(* Predictor: the steps of one run of app.py.                              *)
(***************************************************************************)
\* the globals were the names and the page of the last run kept
StaleGlobals ==
    [model |-> model, label_encoders |-> label_encoders, input_df |-> input_df,
     result |-> result, shown |-> shown, calls |-> calls, uncaught |-> uncaught]

\* every run executes the script in a new namespace, on an empty page
FreshGlobals ==
    [model |-> None, label_encoders |-> None, input_df |-> None,
     result |-> None, shown |-> <<>>, calls |-> {}, uncaught |-> "none"]

StartRun(w, b) ==
    /\ ppc' = "start"
    /\ widgets' = w
    /\ button' = b
    /\ model' = FreshGlobals.model
    /\ label_encoders' = FreshGlobals.label_encoders
    /\ input_df' = FreshGlobals.input_df
    /\ result' = FreshGlobals.result
    /\ shown' = FreshGlobals.shown
    /\ calls' = FreshGlobals.calls
    /\ uncaught' = FreshGlobals.uncaught

\* the except block without st.stop(): the script goes on
ContinueAfterLoadError == "loaded"

\* line 13
StopAfterLoadError == "stopped"

\* lines 8-10, both loads succeed
LoadArtifacts ==
    /\ tpc = "exited" /\ ppc = "start"
    /\ disk.loan_model # None /\ disk.label_encoders # None
    /\ model' = disk.loan_model
    /\ label_encoders' = disk.label_encoders
    /\ ppc' = "loaded"
    /\ UNCHANGED <<disk, tvars, widgets, button, input_df, result, shown, calls, uncaught>>

\* lines 8-13, a load raises.  label_encoders is loaded second, so a missing
\* label_encoders leaves model bound.
LoadError ==
    /\ tpc = "exited" /\ ppc = "start"
    /\ disk.loan_model = None \/ disk.label_encoders = None
    /\ model' = disk.loan_model
    /\ shown' = Append(shown, "load_error")
    /\ ppc' = StopAfterLoadError
    /\ UNCHANGED <<disk, tvars, widgets, button, label_encoders, input_df, result, calls, uncaught>>

\* lines 25-58: input_df = user_input_features().  The call is not inside a
\* try block, so the ValueError of transform leaves the script.
UserInputFeatures ==
    /\ tpc = "exited" /\ ppc = "loaded"
    /\ IF EncodeFails(label_encoders, widgets)
       THEN /\ uncaught' = "ValueError"
            /\ calls' = calls \cup {"transform"}
            /\ ppc' = "crashed"
            /\ UNCHANGED input_df
       ELSE /\ input_df' = DataFrame(DataItems(label_encoders, widgets), feature_order)
            /\ calls' = calls \cup {"transform", "DataFrame"}
            /\ ppc' = "ready"
            /\ UNCHANGED uncaught
    /\ UNCHANGED <<disk, tvars, widgets, button, model, label_encoders, result, shown>>

\* line 61, the button was not pressed: the script ends
NoPrediction ==
    /\ tpc = "exited" /\ ppc = "ready" /\ ~button
    /\ ppc' = "done"
    /\ UNCHANGED <<disk, tvars, widgets, button, model, label_encoders, input_df, result, shown, calls, uncaught>>

\* lines 61-98, the button was pressed.  predict_proba(...)[0][1] is an
\* IndexError for a classifier fitted on one class; the except block reports it.
PredictEligibility ==
    /\ tpc = "exited" /\ ppc = "ready" /\ button
    /\ LET prediction == Predict(model, input_df.values)
           probs == PredictProba(model, input_df.values)
       IN  IF Len(probs) < 2
           THEN /\ result' = None
                /\ shown' = Append(shown, "prediction_error")
           ELSE /\ result' = [prediction |-> prediction,
                              proba |-> [num |-> probs[2].num * 100, den |-> probs[2].den]]
                /\ shown' = shown
                            \o <<IF prediction = 1 THEN "approved" ELSE "not_approved",
                                 "chart", "summary">>
                            \o Insights(input_df)
    /\ calls' = calls \cup {"predict", "predict_proba"}
    /\ ppc' = "done"
    /\ UNCHANGED <<disk, tvars, widgets, button, model, label_encoders, input_df, uncaught>>

\* the user changes one sidebar widget; Streamlit reruns the script.  The
\* widgets exist once user_input_features has created them.
EditWidget ==
    /\ tpc = "exited" /\ ppc \in {"crashed", "done"}
    /\ \E f \in DOMAIN Defaults : \E v \in Options[f] :
          /\ v # widgets[f]
          /\ Cardinality(Edited([widgets EXCEPT ![f] = v])) <= MaxEdits
          /\ StartRun([widgets EXCEPT ![f] = v], FALSE)
    /\ UNCHANGED <<disk, tvars>>

\* the user presses Predict; the button exists once line 61 was reached
ClickPredict ==
    /\ tpc = "exited" /\ ppc = "done"
    /\ StartRun(widgets, TRUE)
    /\ UNCHANGED <<disk, tvars>>

\* the user reloads the page: a new session with the default widget values
ReloadPage ==
    /\ tpc = "exited" /\ ppc \in {"stopped", "crashed", "done"}
    /\ StartRun(Defaults, FALSE)
    /\ UNCHANGED <<disk, tvars>>


(***************************************************************************)
(* The artifacts a Predictor may find on disk without the Trainer of this  *)
(* repository having just written them: a file may be absent, the encoder  *)
(* set may lack a key or hold an encoder fitted on fewer labels.  At most  *)
(* one of the two files departs from the reference artifacts, and at most  *)
(* one encoder of the set.                                                 *)
(***************************************************************************)
LabelSets ==
    [c \in Range(EncodedColumns) |-> IF c = "Loan_Status" THEN {"N", "Y"} ELSE Options[c]]

FullEncoders == [c \in Range(EncodedColumns) |-> Sorted(LabelSets[c])]

EncoderSets ==
    {FullEncoders}
    \cup { [c \in Range(EncodedColumns) \ {missing} |-> FullEncoders[c]] :
              missing \in Range(CategoricalInputs) }
    \cup UNION { { [FullEncoders EXCEPT ![c] = Sorted(S)] :
                      S \in (SUBSET LabelSets[c]) \ {{}, LabelSets[c]} } :
                 c \in Range(CategoricalInputs) }

Classifiers == FittedModels(<<0, 1>>, feature_order) \cup FittedModels(<<0>>, feature_order)

ReferenceModel ==
    [classes |-> <<0, 1>>, feature_names_in |-> feature_order,
     trees |-> [i \in 1..NTrees |-> IF i = 1 THEN CreditStump ELSE GenderStump]]

Disks ==
    { [loan_model |-> m, label_encoders |-> FullEncoders] : m \in Classifiers \cup {None} }
    \cup { [loan_model |-> ReferenceModel, label_encoders |-> e] : e \in EncoderSets \cup {None} }

(***************************************************************************)
(* Specification.                                                          *)
(***************************************************************************)
PredictorStart ==
    /\ ppc = "start" /\ widgets = Defaults /\ button = FALSE
    /\ model = None /\ label_encoders = None /\ input_df = None
    /\ result = None /\ shown = <<>> /\ calls = {} /\ uncaught = "none"

\* the Trainer is run on a dataset, no artifact exists yet
InitTrain ==
    /\ disk = [loan_model |-> None, label_encoders |-> None]
    /\ tpc = "read"
    /\ \E data \in Datasets : df = [columns |-> Header, rows |-> data]
    /\ t_encoders = None /\ X = NoFrame /\ y = <<>> /\ train_idx = {} /\ t_model = None
    /\ PredictorStart

\* the artifacts are already there
InitDeployed ==
    /\ disk \in Disks
    /\ tpc = "exited"
    /\ TrainerIdle
    /\ PredictorStart

Init == InitTrain \/ InitDeployed

Next ==
    \/ DropId \/ Impute \/ Replace \/ Encode \/ Split \/ Fit \/ Dump \/ TrainerExit
    \/ LoadArtifacts \/ LoadError \/ UserInputFeatures \/ NoPrediction
    \/ PredictEligibility \/ EditWidget \/ ClickPredict \/ ReloadPage

Spec == Init /\ [][Next]_vars


(***************************************************************************)
(* Properties.                                                             *)
(***************************************************************************)
FeatureSchema ==
    <<"Gender", "Married", "Dependents", "Education", "Self_Employed",
      "ApplicantIncome", "CoapplicantIncome", "LoanAmount",
      "Loan_Amount_Term", "Credit_History", "Property_Area">>

NumericInputs ==
    {"ApplicantIncome", "CoapplicantIncome", "LoanAmount", "Loan_Amount_Term", "Credit_History"}

Shown(msg) == msg \in Range(shown)

Predicted == ppc = "done" /\ button /\ result # None

\* C1: the Predictor's frame lists the fields in the schema order, each
\* position holding its field's value, and the Trainer's feature frame and the
\* fitted classifier have the same order, so a position names the same field
\* at fit time and at prediction time.
C1_FeatureOrder ==
    /\ tpc \in {"split", "fitted", "saved"} => X.columns = FeatureSchema
    /\ tpc \in {"fitted", "saved"} => t_model.feature_names_in = FeatureSchema
    /\ ppc \in {"ready", "done"} =>
          /\ input_df.columns = FeatureSchema
          /\ model.feature_names_in = input_df.columns
          /\ \A i \in 1..Len(FeatureSchema) :
                /\ FeatureSchema[i] \in NumericInputs =>
                      input_df.values[i] = widgets[FeatureSchema[i]]
                /\ FeatureSchema[i] = "Dependents" =>
                      input_df.values[i] = NormalizeDependents(widgets.Dependents)

C1_Witness ==
    /\ Predicted
    /\ widgets.Dependents = "3+"
    /\ widgets.Credit_History = 0

\* C2: a submitted value that a registered encoder was not fitted on raises
\* the encoder's error; no code is made up for it, no frame is built and the
\* classifier is not called.
C2_UnseenLabelRaises ==
    \A c \in Range(CategoricalInputs) :
        ( /\ ppc \in {"ready", "crashed", "done"}
          /\ c \in DOMAIN label_encoders
          /\ widgets[c] \notin Range(label_encoders[c]) )
        => ( /\ ppc = "crashed"
             /\ uncaught = "ValueError"
             /\ input_df = None
             /\ result = None
             /\ calls \cap {"DataFrame", "predict", "predict_proba"} = {} )

C2_Witness ==
    /\ ppc = "crashed"
    /\ widgets.Property_Area = "Semiurban"
    /\ "Property_Area" \in DOMAIN label_encoders
    /\ "Semiurban" \notin Range(label_encoders.Property_Area)

\* C3: every error after a successful load is caught and shown as a
\* prediction failure; no exception leaves the script.
C3_AllErrorsCaught ==
    /\ uncaught = "none"
    /\ (ppc \in {"crashed", "done"} /\ button /\ result = None) => Shown("prediction_error")

\* C4: when either artifact fails to load the run reports the load error and
\* halts with nothing encoded, built or predicted; anything encoded, built or
\* predicted belongs to a run that loaded both artifacts.
C4_LoadGate ==
    /\ (ppc # "start" /\ (disk.loan_model = None \/ disk.label_encoders = None)) =>
          /\ ppc = "stopped"
          /\ shown = <<"load_error">>
          /\ calls = {} /\ input_df = None /\ result = None
    /\ (calls # {} \/ input_df # None \/ result # None) =>
          /\ model # None /\ model = disk.loan_model
          /\ label_encoders # None /\ label_encoders = disk.label_encoders

C4_Witness ==
    /\ ppc = "stopped"
    /\ disk.loan_model # None
    /\ disk.label_encoders = None

\* C5 as stated: the displayed probability is within [0, 100] and the decision
\* is 'approved' exactly when it is at least 50, the value 50 included.
C5_ApprovedIffAtLeast50 ==
    Predicted =>
        /\ 0 <= result.proba.num /\ result.proba.num <= 100 * result.proba.den
        /\ Shown("approved") <=> (result.proba.num >= 50 * result.proba.den)

\* C5 as amended: the displayed probability is within [0, 100], exactly one of
\* the two decisions is shown, and the decision is 'approved' (prediction = 1)
\* exactly when the probability is strictly above 50; at exactly 50 the
\* decision is 'not approved'.
C5_ApprovedIffAbove50 ==
    Predicted =>
        /\ 0 <= result.proba.num /\ result.proba.num <= 100 * result.proba.den
        /\ Shown("approved") <=> (result.prediction = 1)
        /\ Shown("not_approved") <=> ~Shown("approved")
        /\ Shown("approved") <=> (result.proba.num > 50 * result.proba.den)

C5_Witness ==
    /\ Predicted
    /\ result.proba.num = 50 * result.proba.den
    /\ Shown("not_approved")

\* C6: after a successful prediction 'good credit history' is shown iff
\* Credit_History = 1 and 'poor credit history' iff it is 0, never both;
\* 'high income' iff ApplicantIncome > 8000 and 'large loan' iff
\* LoanAmount > 300, whatever the decision.
C6_AdvisoryFlags ==
    Predicted =>
        /\ Shown("good_credit") <=> (widgets.Credit_History = 1)
        /\ Shown("poor_credit") <=> (widgets.Credit_History = 0)
        /\ ~(Shown("good_credit") /\ Shown("poor_credit"))
        /\ Shown("high_income") <=> (widgets.ApplicantIncome > 8000)
        /\ Shown("large_loan") <=> (widgets.LoanAmount > 300)

C6_Witness ==
    /\ Predicted
    /\ widgets.ApplicantIncome = 8000 /\ ~Shown("high_income")
    /\ widgets.LoanAmount = 301 /\ Shown("large_loan")

\* what a run shows for the artifacts d, the row w and the button b, whatever
\* ran before it
Outcome(d, w, b) ==
    IF d.loan_model = None \/ d.label_encoders = None
    THEN [shown |-> <<"load_error">>, result |-> None, uncaught |-> "none"]
    ELSE IF \E c \in Range(CategoricalInputs) :
               c \in DOMAIN d.label_encoders /\ w[c] \notin Range(d.label_encoders[c])
    THEN [shown |-> <<>>, result |-> None, uncaught |-> "ValueError"]
    ELSE IF ~b
    THEN [shown |-> <<>>, result |-> None, uncaught |-> "none"]
    ELSE LET frame == DataFrame(DataItems(d.label_encoders, w), feature_order)
             probs == PredictProba(d.loan_model, frame.values)
             label == Predict(d.loan_model, frame.values)
         IN  IF Len(probs) < 2
             THEN [shown |-> <<"prediction_error">>, result |-> None, uncaught |-> "none"]
             ELSE [shown |-> <<IF label = 1 THEN "approved" ELSE "not_approved",
                               "chart", "summary">> \o Insights(frame),
                   result |-> [prediction |-> label,
                               proba |-> [num |-> probs[2].num * 100, den |-> probs[2].den]],
                   uncaught |-> "none"]

\* C7: what a finished run shows (decision, probability, flags, or the error)
\* is a function of the artifacts on disk and the submitted row alone, the
\* artifacts in memory are those on disk, and no step of the Predictor
\* changes the artifacts on disk.
C7_NoHiddenState ==
    /\ [](ppc \in {"stopped", "crashed", "done"} =>
            /\ [shown |-> shown, result |-> result, uncaught |-> uncaught]
                  = Outcome(disk, widgets, button)
            /\ model \in {None, disk.loan_model}
            /\ label_encoders \in {None, disk.label_encoders})
    /\ [][tpc = "exited" => disk' = disk]_vars

\* a prediction for a row the user reached by editing the form, in a session
\* with earlier runs
C7_Witness ==
    /\ Predicted
    /\ Cardinality(Edited(widgets)) = 1
    /\ widgets.Credit_History = 0

\* C8 as stated: once the imputation step has run, no cell of df is null,
\* also for a dataset with a column whose entries are all missing.
C8_NoNullAfterImputation ==
    (tpc \in {"imputed", "failed", "replaced"}) =>
        \A i \in DOMAIN df.rows : \A c \in Range(df.columns) : df.rows[i][c] # NaN

IsMode(col, v) ==
    /\ v \in Observed(col)
    /\ \A w \in Observed(col) :
          \/ Count(col, v) > Count(col, w)
          \/ Count(col, v) = Count(col, w) /\ Rank(v) <= Rank(w)

\* C8 as amended: when every column has an observed value the imputation step
\* leaves no null cell: a missing cell holds its column's most frequent
\* observed value, the smallest of them on a tie, and a present cell is
\* unchanged; a column whose entries are all missing makes the step fail and
\* df keeps its nulls.
C8_ImputationStep ==
    [][ tpc = "dropped" =>
          IF \A c \in Range(df.columns) : Observed(Column(df, c)) # {}
          THEN /\ tpc' = "imputed"
               /\ df'.columns = df.columns
               /\ \A i \in DOMAIN df.rows : \A c \in Range(df.columns) :
                     /\ df'.rows[i][c] # NaN
                     /\ df.rows[i][c] # NaN => df'.rows[i][c] = df.rows[i][c]
                     /\ df.rows[i][c] = NaN => IsMode(Column(df, c), df'.rows[i][c])
          ELSE tpc' = "failed" /\ df' = df ]_vars

\* the row with a missing LoanAmount (the only male applicant with status N)
\* holds 120, the most frequent value, although 100 is observed too
C8_Witness ==
    /\ tpc = "imputed"
    /\ \E i \in DOMAIN df.rows :
          /\ df.rows[i].Gender = "Male" /\ df.rows[i].Loan_Status = "N"
          /\ df.rows[i].LoanAmount = "120"
    /\ \E i \in DOMAIN df.rows : df.rows[i].LoanAmount = "100"

\* C9: a categorical field without an encoder in the loaded set gets code 0
\* and raises nothing, whatever was submitted; every field with an encoder
\* gets the position of its value among the encoder's labels, and only a
\* label unknown to a registered encoder stops the run.
C9_MissingEncoderDefault ==
    /\ ppc \in {"ready", "done"} =>
          \A c \in Range(CategoricalInputs) :
              Cell(input_df, c) =
                  IF c \in DOMAIN label_encoders
                  THEN IndexOf(label_encoders[c], widgets[c]) - 1
                  ELSE 0
    /\ ppc = "crashed" =>
          \E c \in Range(CategoricalInputs) :
              c \in DOMAIN label_encoders /\ widgets[c] \notin Range(label_encoders[c])

C9_Witness ==
    /\ Predicted
    /\ "Property_Area" \notin DOMAIN label_encoders
    /\ widgets.Property_Area = "Semiurban"
    /\ widgets.Gender = "Female"
    /\ Cell(input_df, "Property_Area") = 0
    /\ Cell(input_df, "Gender") = 0

\* C10: for every dataset the Trainer fits a classifier on, the Loan_Status
\* encoder gives 'Y' the code 1 and 'N' the code 0, the codes the Predictor
\* reads as approved and not approved.
C10_ApprovedIsCodeOne ==
    tpc \in {"fitted", "saved"} =>
        /\ Transform(t_encoders.Loan_Status, "Y") = [ok |-> TRUE, code |-> 1]
        /\ Transform(t_encoders.Loan_Status, "N") = [ok |-> TRUE, code |-> 0]

====
